---- MODULE Spec2Model ----
(***************************************************************************)
(* Model of package barriers (src/barriers/barriers.go): error barriers    *)
(* that mask a causal chain, and their leaf encoder/decoder.               *)
(*                                                                         *)
(* An error value is a sequence of links, outermost first; the empty       *)
(* sequence is the nil error.  A link is a record                          *)
(*   [kind, msg, safe, masked]                                             *)
(* where msg is a text (a sequence of tokens), safe is the link's own list *)
(* of safe detail strings and masked is the hidden chain of a barrier      *)
(* (Nil for every other kind).  Texts are sequences of tokens so that      *)
(* concatenation, prefixes and "contains" are computed, not assumed.       *)
(***************************************************************************)
EXTENDS Naturals, Sequences, FiniteSets, TLC

\* ---- bounds ------------------------------------------------------------
\* Largest number of links (nested masked links included) in an error.
MaxLinks == 3

\* ---- small input alphabets ---------------------------------------------
MsgTexts == { <<"m1">>, <<"m2">> }
DetailLists == { <<>>, <<"a", "b">>, <<"z">> }
Formats == { <<"m1", "%s">> }
ArgLists == { <<>>, <<"m2">> }

Nil == <<>>

\* The label printed by FormatError in detail mode.
BarrierLabel == "\noriginal cause behind barrier:\n"

\* ---- error values --------------------------------------------------------
\* The barrierError struct: a leaf link carrying msg and the masked chain.
barrierError(msg, maskedErr) ==
    [kind |-> "barrier", msg |-> msg, safe |-> <<>>, masked |-> maskedErr]

\* Links built by other packages: leaves and wrappers, of a kind known to the
\* codec ("leaf", "wrap") or not ("custom", "customWrap"), and the opaque
\* links the codec decodes unknown kinds into.
PlainLink(kind, msg, safe) ==
    [kind |-> kind, msg |-> msg, safe |-> safe, masked |-> Nil]

WrapKinds == { "wrap", "customWrap", "opaqueWrap" }
LeafKinds == { "leaf", "custom", "opaqueLeaf" }

\* err.(*barrierError) succeeds.
IsBarrier(err) == err # Nil /\ Head(err).kind = "barrier"

\* The methods of *barrierError: no Unwrap, no Cause.
barrierMethods == { "Error", "SafeDetails", "Format", "FormatError" }

MethodsOf(link) ==
    IF link.kind = "barrier" THEN barrierMethods
    ELSE IF link.kind \in WrapKinds THEN { "Error", "SafeDetails", "Unwrap" }
    ELSE { "Error", "SafeDetails" }

\* errbase.UnwrapOnce: the next cause, through Cause() or Unwrap() only.
UnwrapOnce(err) ==
    IF err = Nil THEN Nil
    ELSE IF MethodsOf(Head(err)) \cap { "Unwrap", "Cause" } = {} THEN Nil
    ELSE Tail(err)

RECURSIVE Size(_)
Size(err) ==
    IF err = Nil THEN 0 ELSE 1 + Size(Head(err).masked) + Size(Tail(err))

\* (*barrierError).Error
Error(e) == e.msg

\* err.Error() of any error: a wrapper prefixes its cause's text.
RECURSIVE ErrorText(_)
ErrorText(err) ==
    IF err = Nil THEN <<>>
    ELSE IF Head(err).kind = "barrier" THEN Error(Head(err))
    ELSE IF Tail(err) = Nil THEN Head(err).msg
    ELSE Head(err).msg \o <<": ">> \o ErrorText(Tail(err))

\* ---- construction ------------------------------------------------------
\* Faulty variants of HandledWithMessage: no nil check; the message argument
\* dropped in favour of the masked error's own text.
HandledWithMessage_NoNilCheck(err, msg) == << barrierError(msg, err) >>

HandledWithMessage_KeepsErrText(err, msg) ==
    IF err = Nil THEN Nil ELSE << barrierError(ErrorText(err), err) >>

HandledWithMessage(err, msg) ==
    IF err = Nil THEN Nil ELSE << barrierError(msg, err) >>

Handled(err) ==
    IF err = Nil THEN Nil ELSE HandledWithMessage(err, ErrorText(err))

\* fmt.Sprintf restricted to the %s verb: each verb consumes one argument.
RECURSIVE Sprintf(_, _)
Sprintf(format, args) ==
    IF format = <<>>
    THEN IF args = <<>> THEN <<>> ELSE <<"%!(EXTRA)">>
    ELSE IF Head(format) = "%s"
         THEN IF args = <<>>
              THEN <<"%!s(MISSING)">> \o Sprintf(Tail(format), args)
              ELSE <<Head(args)>> \o Sprintf(Tail(format), Tail(args))
         ELSE <<Head(format)>> \o Sprintf(Tail(format), args)

\* Faulty variant of HandledWithMessagef: no nil check.
HandledWithMessagef_NoNilCheck(err, format, args) ==
    << barrierError(Sprintf(format, args), err) >>

HandledWithMessagef(err, format, args) ==
    IF err = Nil THEN Nil ELSE << barrierError(Sprintf(format, args), err) >>

\* ---- safe details ------------------------------------------------------
\* SafeDetailPayload.Fill: append this link's strings to the running list.
Fill(sd, details) == details \o sd

RECURSIVE SafeDetails(_), GetSafeDetails(_), SafeDetailsLoop(_, _)
\* errbase.GetSafeDetails: the link's own SafeDetails().
GetSafeDetails(err) ==
    IF Head(err).kind = "barrier" THEN SafeDetails(Head(err)) ELSE Head(err).safe

\* The for loop of (*barrierError).SafeDetails.
SafeDetailsLoop(err, details) ==
    IF err = Nil THEN details
    ELSE SafeDetailsLoop(UnwrapOnce(err), Fill(GetSafeDetails(err), details))

\* Faulty variant of SafeDetails: the walk starts one link too deep.
SafeDetails_SkipsOuterLink(e) == SafeDetailsLoop(UnwrapOnce(e.masked), <<>>)

SafeDetails(e) == SafeDetailsLoop(e.masked, <<>>)


\* ---- formatting ----------------------------------------------------------
RECURSIVE FormatError(_, _), VerboseRender(_)
\* Faulty variants of FormatError: the masked cause handed back as the next
\* error; the detail part printed whatever the mode.
FormatError_ReturnsMasked(e, detail) ==
    [ printed |-> e.msg \o (IF detail
                            THEN <<BarrierLabel>> \o VerboseRender(e.masked)
                            ELSE <<>>),
      next |-> e.masked ]

FormatError_AlwaysDetail(e, detail) ==
    [ printed |-> e.msg \o <<BarrierLabel>> \o VerboseRender(e.masked),
      next |-> Nil ]

\* (*barrierError).FormatError with p.Detail() = detail: what was printed and
\* the next error handed back to the formatting engine.
FormatError(e, detail) ==
    [ printed |-> e.msg \o (IF detail
                            THEN <<BarrierLabel>> \o VerboseRender(e.masked)
                            ELSE <<>>),
      next |-> Nil ]

\* The %+v rendering of any error by the formatting engine.
VerboseRender(err) ==
    IF err = Nil THEN <<"<nil>">>
    ELSE IF Head(err).kind = "barrier" THEN FormatError(Head(err), TRUE).printed
    ELSE IF Tail(err) = Nil THEN Head(err).msg
    ELSE Head(err).msg \o <<"\nwraps: ">> \o VerboseRender(Tail(err))

Verbs == { "s", "v", "+v" }

\* errbase.FormatError(e, s, verb) on a barrier: only %+v asks for detail.
Format(e, verb) == FormatError(e, verb = "+v").printed

\* ---- the leaf codec registry ---------------------------------------------
BarrierKey == "barriers/*barrierError"
TypeKeys == { BarrierKey, "leaf", "wrap", "custom", "customWrap" }

\* errbase.GetTypeKey of a link.
GetTypeKey(link) ==
    IF link.kind = "barrier" THEN BarrierKey
    ELSE IF link.kind = "opaqueLeaf" THEN "custom"
    ELSE IF link.kind = "opaqueWrap" THEN "customWrap"
    ELSE link.kind

EmptyRegistry == [ k \in TypeKeys |-> "none" ]

\* Faulty variant of init: the encoder goes under another kind's key.
initRegistrations_EncoderMiskeyed ==
    LET tn == GetTypeKey(barrierError(<<>>, Nil))
    IN << [table |-> "dec", key |-> tn, fn |-> "decodeBarrier"],
          [table |-> "enc", key |-> "leaf", fn |-> "encodeBarrier"] >>

\* The registrations func init() makes, in order.
initRegistrations ==
    LET tn == GetTypeKey(barrierError(<<>>, Nil))
    IN << [table |-> "dec", key |-> tn, fn |-> "decodeBarrier"],
          [table |-> "enc", key |-> tn, fn |-> "encodeBarrier"] >>

RECURSIVE Register(_, _, _)
\* The table named which after the registrations regs were applied to reg.
Register(reg, regs, which) ==
    IF regs = <<>> THEN reg
    ELSE Register(IF Head(regs).table = which
                  THEN [reg EXCEPT ![Head(regs).key] = Head(regs).fn]
                  ELSE reg,
                  Tail(regs), which)

\* ---- wire values ---------------------------------------------------------
\* A proto.Message: an *errbase.EncodedError, some other message, or nil.
EncProto(enc) == [shape |-> "EncodedError", enc |-> enc]
OtherProto == [shape |-> "Other", enc |-> <<>>]
NilProto == [shape |-> "nil", enc |-> <<>>]

EncLink(tkey, msg, details, full) ==
    [tkey |-> tkey, msg |-> msg, details |-> details, full |-> full]

\* What a codec call yields when a callee panicked.
PanicEnc == << EncLink("panic", <<>>, <<>>, NilProto) >>
PanicChain == << PlainLink("panic", <<>>, <<>>) >>

RECURSIVE EncodeError(_, _), encodeBarrier(_, _)
\* Faulty variants of encodeBarrier: a failed type assertion tolerated; the
\* masked error's own text sent instead of the cached message.
encodeBarrier_ToleratesOtherKinds(encs, err) ==
    IF ~IsBarrier(err)
    THEN [panic |-> FALSE, msg |-> <<>>, details |-> <<>>,
          payload |-> EncProto(<<>>)]
    ELSE LET e == Head(err)
             enc == EncodeError(encs, e.masked)
         IN IF enc = PanicEnc
            THEN [panic |-> TRUE, msg |-> <<>>, details |-> <<>>,
                  payload |-> NilProto]
            ELSE [panic |-> FALSE, msg |-> e.msg, details |-> SafeDetails(e),
                  payload |-> EncProto(enc)]

encodeBarrier_SendsMaskedText(encs, err) ==
    IF ~IsBarrier(err)
    THEN [panic |-> TRUE, msg |-> <<>>, details |-> <<>>, payload |-> NilProto]
    ELSE LET e == Head(err)
             enc == EncodeError(encs, e.masked)
         IN IF enc = PanicEnc
            THEN [panic |-> TRUE, msg |-> <<>>, details |-> <<>>,
                  payload |-> NilProto]
            ELSE [panic |-> FALSE, msg |-> ErrorText(e.masked),
                  details |-> SafeDetails(e), payload |-> EncProto(enc)]

\* func encodeBarrier: panics unless err is a *barrierError.
encodeBarrier(encs, err) ==
    IF ~IsBarrier(err)
    THEN [panic |-> TRUE, msg |-> <<>>, details |-> <<>>, payload |-> NilProto]
    ELSE LET e == Head(err)
             enc == EncodeError(encs, e.masked)
         IN IF enc = PanicEnc
            THEN [panic |-> TRUE, msg |-> <<>>, details |-> <<>>,
                  payload |-> NilProto]
            ELSE [panic |-> FALSE, msg |-> e.msg, details |-> SafeDetails(e),
                  payload |-> EncProto(enc)]

\* errbase.EncodeError: wrappers link by link, the leaf through its
\* registered encoder when there is one.
EncodeError(encs, err) ==
    IF err = Nil THEN <<>>
    ELSE LET l == Head(err) IN
         IF UnwrapOnce(err) # Nil
         THEN LET rest == EncodeError(encs, Tail(err)) IN
              IF rest = PanicEnc THEN PanicEnc
              ELSE << EncLink(GetTypeKey(l), l.msg, l.safe, NilProto) >> \o rest
         ELSE IF encs[GetTypeKey(l)] = "encodeBarrier"
              THEN LET r == encodeBarrier(encs, err) IN
                   IF r.panic THEN PanicEnc
                   ELSE << EncLink(GetTypeKey(l), r.msg, r.details, r.payload) >>
              ELSE << EncLink(GetTypeKey(l), ErrorText(err),
                              GetSafeDetails(err), NilProto) >>

RECURSIVE DecodeError(_, _), decodeBarrier(_, _, _, _)
\* Faulty variant of decodeBarrier: a non-empty safe detail list from the wire
\* is trusted, and stands in for the cause.
decodeBarrier_TrustsWireDetails(decs, msg, details, payload) ==
    IF payload.shape # "EncodedError"
    THEN [panic |-> TRUE, err |-> Nil]
    ELSE LET m == DecodeError(decs, payload.enc) IN
         IF m = PanicChain THEN [panic |-> TRUE, err |-> Nil]
         ELSE IF details # <<>>
              THEN [panic |-> FALSE,
                    err |-> << barrierError(msg,
                                 << PlainLink("opaqueLeaf", msg, details) >>) >>]
              ELSE [panic |-> FALSE, err |-> << barrierError(msg, m) >>]

\* func decodeBarrier: panics unless payload is an *errbase.EncodedError.
decodeBarrier(decs, msg, details, payload) ==
    IF payload.shape # "EncodedError"
    THEN [panic |-> TRUE, err |-> Nil]
    ELSE LET m == DecodeError(decs, payload.enc) IN
         IF m = PanicChain THEN [panic |-> TRUE, err |-> Nil]
         ELSE [panic |-> FALSE, err |-> << barrierError(msg, m) >>]

\* errbase.DecodeError: a link of a known kind is rebuilt, a link of an
\* unknown kind becomes an opaque link with the same message and details.
DecodeError(decs, enc) ==
    IF enc = <<>> THEN Nil
    ELSE LET l == Head(enc) IN
         IF Tail(enc) # <<>>
         THEN LET rest == DecodeError(decs, Tail(enc)) IN
              IF rest = PanicChain THEN PanicChain
              ELSE << PlainLink(IF l.tkey = "wrap" THEN "wrap" ELSE "opaqueWrap",
                                l.msg, l.details) >> \o rest
         ELSE IF decs[l.tkey] = "decodeBarrier"
              THEN LET r == decodeBarrier(decs, l.msg, l.details, l.full) IN
                   IF r.panic THEN PanicChain ELSE r.err
              ELSE << PlainLink(IF l.tkey = "leaf" THEN "leaf" ELSE "opaqueLeaf",
                                l.msg, l.details) >>


\* ---- state ---------------------------------------------------------------
VARIABLES
    pc,            \* "boot" before func init() ran, "ready" after, "panicked"
    leafDecoders,  \* errbase's decoder table: type key -> function
    leafEncoders,  \* errbase's encoder table: type key -> function
    regLog,        \* every registration made so far, in order
    cur,           \* the error value the program holds (Nil: no error)
    born,          \* the message the barrier in cur was constructed with
    wire,          \* the envelope in flight, and the barrier it encodes
    call           \* the last call: operation, argument, output, cursor

vars == << pc, leafDecoders, leafEncoders, regLog, cur, born, wire, call >>

\* Errors other packages hand to this one.
Leaves == { PlainLink("leaf", <<"m1">>, <<"a", "b">>),
            PlainLink("custom", <<"m2">>, <<>>) }
Wrappers == { PlainLink("wrap", <<"m2">>, <<"c">>),
              PlainLink("customWrap", <<"m1">>, <<>>) }

Envelope(msg, details, payload, from) ==
    [msg |-> msg, details |-> details, payload |-> payload, from |-> from]
NoWire == Envelope(<<>>, <<>>, NilProto, Nil)

Call(op, arg, out) == [op |-> op, arg |-> arg, out |-> out, trav |-> Nil]

\* Payloads a peer may send: no message, a message of another type, an unset
\* EncodedError, and the encodings of two small errors.
PeerPayloads ==
    { NilProto, OtherProto, EncProto(<<>>),
      EncProto(<< EncLink("leaf", <<"m2">>, <<"c">>, NilProto) >>),
      EncProto(<< EncLink("customWrap", <<"m1">>, <<"a", "b">>, NilProto),
                  EncLink("custom", <<"m2">>, <<>>, NilProto) >>) }

Init ==
    /\ pc = "boot"
    /\ leafDecoders = EmptyRegistry
    /\ leafEncoders = EmptyRegistry
    /\ regLog = <<>>
    /\ cur = Nil
    /\ born = <<>>
    /\ wire = NoWire
    /\ call = Call("none", Nil, <<>>)

\* func init(): runs once, before any other code of the program.
init ==
    /\ pc = "boot"
    /\ pc' = "ready"
    /\ leafDecoders' = Register(leafDecoders, initRegistrations, "dec")
    /\ leafEncoders' = Register(leafEncoders, initRegistrations, "enc")
    /\ regLog' = regLog \o initRegistrations
    /\ call' = Call("init", Nil, <<>>)
    /\ UNCHANGED << cur, born, wire >>

\* ---- the environment: other packages building errors ---------------------
NewLeaf ==
    /\ pc = "ready" /\ wire = NoWire
    /\ \E l \in Leaves : cur' = << l >>
    /\ born' = <<>>
    /\ call' = Call("env", Nil, <<>>)
    /\ UNCHANGED << pc, leafDecoders, leafEncoders, regLog, wire >>

Wrap ==
    /\ pc = "ready" /\ wire = NoWire
    /\ cur # Nil /\ Size(cur) < MaxLinks
    /\ \E w \in Wrappers : cur' = << w >> \o cur
    /\ born' = <<>>
    /\ call' = Call("env", Nil, <<>>)
    /\ UNCHANGED << pc, leafDecoders, leafEncoders, regLog, wire >>

NoError ==
    /\ pc = "ready" /\ wire = NoWire
    /\ cur' = Nil
    /\ born' = <<>>
    /\ call' = Call("env", Nil, <<>>)
    /\ UNCHANGED << pc, leafDecoders, leafEncoders, regLog, wire >>

\* ---- construction calls --------------------------------------------------
CallHandled ==
    /\ pc = "ready" /\ wire = NoWire
    /\ Size(cur) < MaxLinks
    /\ cur' = Handled(cur)
    /\ born' = ErrorText(cur)
    /\ call' = Call("Handled", cur, <<>>)
    /\ UNCHANGED << pc, leafDecoders, leafEncoders, regLog, wire >>

CallHandledWithMessage ==
    /\ pc = "ready" /\ wire = NoWire
    /\ Size(cur) < MaxLinks
    /\ \E msg \in MsgTexts :
          /\ cur' = HandledWithMessage(cur, msg)
          /\ born' = msg
    /\ call' = Call("HandledWithMessage", cur, <<>>)
    /\ UNCHANGED << pc, leafDecoders, leafEncoders, regLog, wire >>

CallHandledWithMessagef ==
    /\ pc = "ready" /\ wire = NoWire
    /\ Size(cur) < MaxLinks
    /\ \E format \in Formats, args \in ArgLists :
          /\ cur' = HandledWithMessagef(cur, format, args)
          /\ born' = Sprintf(format, args)
    /\ call' = Call("HandledWithMessagef", cur, <<>>)
    /\ UNCHANGED << pc, leafDecoders, leafEncoders, regLog, wire >>

\* ---- calls on the barrier in cur -----------------------------------------
CallError ==
    /\ pc = "ready" /\ IsBarrier(cur)
    /\ call' = Call("Error", cur, Error(Head(cur)))
    /\ UNCHANGED << pc, leafDecoders, leafEncoders, regLog, cur, born, wire >>

CallSafeDetails ==
    /\ pc = "ready" /\ IsBarrier(cur)
    /\ call' = Call("SafeDetails", cur, SafeDetails(Head(cur)))
    /\ UNCHANGED << pc, leafDecoders, leafEncoders, regLog, cur, born, wire >>

CallFormat ==
    /\ pc = "ready" /\ IsBarrier(cur)
    /\ \E verb \in Verbs :
          call' = Call(IF verb = "+v" THEN "FormatDetailed" ELSE "FormatCompact",
                       cur, Format(Head(cur), verb))
    /\ UNCHANGED << pc, leafDecoders, leafEncoders, regLog, cur, born, wire >>

\* ---- generic cause traversal, as Is()/Cause()/the formatter do it ---------
StartWalk ==
    /\ pc = "ready" /\ cur # Nil
    /\ call' = [op |-> "walk", arg |-> cur, out |-> <<>>, trav |-> cur]
    /\ UNCHANGED << pc, leafDecoders, leafEncoders, regLog, cur, born, wire >>

\* One step through Unwrap()/Cause().
StepUnwrap ==
    /\ pc = "ready" /\ call.op \in { "walk", "step" } /\ call.trav # Nil
    /\ call' = [call EXCEPT !.op = "step", !.trav = UnwrapOnce(call.trav)]
    /\ UNCHANGED << pc, leafDecoders, leafEncoders, regLog, cur, born, wire >>

\* One step through the next error FormatError returns.
StepFormatNext ==
    /\ pc = "ready" /\ call.op \in { "walk", "step" } /\ call.trav # Nil
    /\ \E detail \in BOOLEAN :
          call' = [call EXCEPT
                     !.op = "step",
                     !.trav = IF IsBarrier(call.trav)
                              THEN FormatError(Head(call.trav), detail).next
                              ELSE Tail(call.trav)]
    /\ UNCHANGED << pc, leafDecoders, leafEncoders, regLog, cur, born, wire >>

\* ---- the codec calls -----------------------------------------------------
\* encodeBarrier called on whatever cur holds.
CallEncode ==
    /\ pc = "ready"
    /\ LET r == encodeBarrier(leafEncoders, cur) IN
         IF r.panic
         THEN /\ pc' = "panicked"
              /\ wire' = wire
         ELSE /\ pc' = pc
              /\ wire' = Envelope(r.msg, r.details, r.payload, cur)
    /\ call' = Call("encode", cur, <<>>)
    /\ UNCHANGED << leafDecoders, leafEncoders, regLog, cur, born >>

\* A peer's envelope arrives at a process that holds no error of its own.
Receive ==
    /\ pc = "ready"
    /\ \E msg \in MsgTexts, payload \in PeerPayloads :
          wire' = Envelope(msg, <<>>, payload, Nil)
    /\ cur' = Nil
    /\ born' = <<>>
    /\ call' = Call("env", Nil, <<>>)
    /\ UNCHANGED << pc, leafDecoders, leafEncoders, regLog >>

\* The safe detail list of the envelope is altered on the way.
Tamper ==
    /\ pc = "ready" /\ wire # NoWire
    /\ \E d \in DetailLists : d # wire.details
                              /\ wire' = [wire EXCEPT !.details = d]
    /\ call' = Call("env", Nil, <<>>)
    /\ UNCHANGED << pc, leafDecoders, leafEncoders, regLog, cur, born >>

\* The envelope has been dealt with.
Discard ==
    /\ pc = "ready" /\ wire # NoWire
    /\ wire' = NoWire
    /\ call' = Call("env", Nil, <<>>)
    /\ UNCHANGED << pc, leafDecoders, leafEncoders, regLog, cur, born >>

\* decodeBarrier called on the envelope in flight.
CallDecode ==
    /\ pc = "ready"
    /\ LET r == decodeBarrier(leafDecoders, wire.msg, wire.details, wire.payload)
       IN IF r.panic
          THEN /\ pc' = "panicked"
               /\ UNCHANGED << cur, born >>
          ELSE /\ pc' = pc
               /\ cur' = r.err
               /\ born' = wire.msg
    /\ call' = Call("decode", Nil, <<>>)
    /\ UNCHANGED << leafDecoders, leafEncoders, regLog, wire >>

Next ==
    \/ init
    \/ NewLeaf \/ Wrap \/ NoError
    \/ CallHandled \/ CallHandledWithMessage \/ CallHandledWithMessagef
    \/ CallError \/ CallSafeDetails \/ CallFormat
    \/ StartWalk \/ StepUnwrap \/ StepFormatNext
    \/ CallEncode \/ Receive \/ Tamper \/ Discard \/ CallDecode

Spec == Init /\ [][Next]_vars


\* ---- the shape of the state ----------------------------------------------
\* A chain is wrappers down to one leaf or barrier; what a barrier masks is
\* nil or a chain again.
RECURSIVE WellFormed(_)
WellFormed(err) ==
    /\ err # Nil
    /\ \A i \in 1..(Len(err) - 1) : err[i].kind \in WrapKinds /\ err[i].masked = Nil
    /\ LET l == err[Len(err)]
       IN \/ l.kind \in LeafKinds /\ l.masked = Nil
          \/ l.kind = "barrier" /\ l.safe = <<>>
                                /\ (l.masked = Nil \/ WellFormed(l.masked))

TypeOK ==
    /\ pc \in { "boot", "ready", "panicked" }
    /\ leafDecoders \in [TypeKeys -> { "none", "decodeBarrier" }]
    /\ leafEncoders \in [TypeKeys -> { "none", "encodeBarrier" }]
    /\ cur = Nil \/ (WellFormed(cur) /\ Size(cur) <= MaxLinks)
    /\ wire.payload.shape \in { "EncodedError", "Other", "nil" }
    /\ wire.from = Nil \/ IsBarrier(wire.from)
    /\ call.trav = Nil \/ WellFormed(call.trav)

\* ---- properties ----------------------------------------------------------
CtorOps == { "Handled", "HandledWithMessage", "HandledWithMessagef" }

NonEmptySuffixes(err) == { SubSeq(err, i, Len(err)) : i \in 1..Len(err) }

\* Every chain hidden behind a barrier of err, at any nesting depth.
RECURSIVE HiddenChains(_)
HiddenChains(err) ==
    IF err = Nil THEN {}
    ELSE NonEmptySuffixes(Head(err).masked)
         \cup HiddenChains(Head(err).masked)
         \cup HiddenChains(Tail(err))

\* The safe details of a chain, link by link by position, outermost first; a
\* barrier link's own details are those of the chain it masks.
RECURSIVE ConcatSafe(_, _)
ConcatSafe(err, i) ==
    IF i > Len(err) THEN <<>>
    ELSE (IF err[i].kind = "barrier"
          THEN ConcatSafe(err[i].masked, 1)
          ELSE err[i].safe) \o ConcatSafe(err, i + 1)

Tokens(text) == { text[i] : i \in 1..Len(text) }

\* C1: a cause traversal that starts at a barrier, by Unwrap()/Cause() steps
\* or by the next error FormatError returns, stays at the barrier or ends; it
\* never stands on the masked error or on a link of any hidden chain, and the
\* barrier has no Unwrap or Cause method.
C1_Masking ==
    /\ barrierMethods \cap { "Unwrap", "Cause" } = {}
    /\ call.op \in { "walk", "step" } =>
          /\ call.trav \notin HiddenChains(call.arg)
          /\ IsBarrier(call.arg) =>
                /\ call.trav \in { call.arg, Nil }
                /\ UnwrapOnce(call.arg) = Nil

C1_Witness ==
    /\ call.op = "step" /\ IsBarrier(call.arg)
    /\ Len(Head(call.arg).masked) = 2
    /\ call.trav = Nil

\* C2: each of the three constructors called with the nil error returns nil.
C2_NullPropagation ==
    (call.op \in CtorOps /\ call.arg = Nil) => cur = Nil

C2_Witness ==
    call.op = "HandledWithMessagef" /\ call.arg = Nil /\ cur = Nil

\* C3: Handled(e) is a barrier whose message is e's text at construction,
\* HandledWithMessage(e, m) one whose message is m, and the barrier held
\* answers that same text after any later call made on it.
C3_MessageFixed ==
    /\ (call.op = "Handled" /\ call.arg # Nil) =>
          IsBarrier(cur) /\ Error(Head(cur)) = ErrorText(call.arg)
    /\ (call.op = "HandledWithMessage" /\ call.arg # Nil) =>
          IsBarrier(cur) /\ born \in MsgTexts /\ Error(Head(cur)) = born
    /\ IsBarrier(cur) => Error(Head(cur)) = born
    /\ call.op = "Error" => call.out = born

C3_Witness ==
    /\ call.op = "Error" /\ call.out = <<"m2">>
    /\ ErrorText(Head(cur).masked) = <<"m2", ": ", "m1">>
    /\ wire.from = cur

\* C4: decoding the envelope encodeBarrier made of a barrier b gives a
\* barrier with b's message whose masked cause is the codec's decoding of the
\* codec's encoding of b's masked cause; that cause has the text, the safe
\* details and the detailed rendering of the original.
C4_RoundTrip ==
    (call.op = "decode" /\ pc = "ready" /\ wire.from # Nil) =>
       /\ IsBarrier(cur)
       /\ LET b == Head(wire.from)
              d == Head(cur)
          IN /\ d.msg = b.msg
             /\ d.masked = DecodeError(leafDecoders,
                                       EncodeError(leafEncoders, b.masked))
             /\ ErrorText(d.masked) = ErrorText(b.masked)
             /\ ConcatSafe(d.masked, 1) = ConcatSafe(b.masked, 1)
             /\ Format(d, "+v") = Format(b, "+v")

C4_Witness ==
    /\ call.op = "decode" /\ pc = "ready" /\ wire.from # Nil
    /\ Head(cur).msg # ErrorText(Head(cur).masked)
    /\ Head(cur).masked # Head(wire.from).masked

\* C5: SafeDetails of a barrier is the concatenation of the safe details of
\* the links of the masked chain, outermost first, each link's strings in
\* their order, a link without any adding nothing.
C5_SafeDetails ==
    call.op = "SafeDetails" => call.out = ConcatSafe(Head(cur).masked, 1)

C5_Witness ==
    /\ call.op = "SafeDetails"
    /\ Len(Head(cur).masked) = 2
    /\ call.out = <<"c", "a", "b">>

\* C6: formatted with a verb other than %+v a barrier prints its message and
\* nothing else; with %+v it prints the message, the label, and the detailed
\* rendering of the masked cause, in which the cause's own message shows.
C6_TwoLevels ==
    /\ call.op = "FormatCompact" =>
          /\ call.out = Head(cur).msg
          /\ BarrierLabel \notin Tokens(call.out)
    /\ call.op = "FormatDetailed" =>
          LET e == Head(cur)
              n == Len(e.msg)
          IN /\ Len(call.out) > n + 1
             /\ SubSeq(call.out, 1, n) = e.msg
             /\ call.out[n + 1] = BarrierLabel
             /\ SubSeq(call.out, n + 2, Len(call.out)) = VerboseRender(e.masked)
             /\ Tokens(ErrorText(e.masked)) \ { ": " } \subseteq
                   Tokens(SubSeq(call.out, n + 2, Len(call.out)))

C6_Witness ==
    /\ call.op = "FormatDetailed"
    /\ Head(cur).msg = <<"m1">>
    /\ ErrorText(Head(cur).masked) = <<"m2">>
    /\ call.out = <<"m1", BarrierLabel, "m2">>

\* C7: encodeBarrier panics exactly when its argument is not a barrier, and
\* decodeBarrier exactly when its payload is not an EncodedError; a panic
\* ends the program, and a call that does not panic returns its result.
C7_ContractViolation ==
    /\ call.op = "encode" =>
          /\ pc = "panicked" <=> ~IsBarrier(call.arg)
          /\ pc = "ready" => wire.from = call.arg /\ wire.msg = Head(call.arg).msg
    /\ call.op = "decode" =>
          /\ pc = "panicked" <=> wire.payload.shape # "EncodedError"
          /\ pc = "ready" => IsBarrier(cur)
    /\ pc = "panicked" => call.op \in { "encode", "decode" }

C7_Witness ==
    /\ pc = "panicked" /\ call.op = "encode"
    /\ call.arg # Nil /\ ~IsBarrier(call.arg)

\* C8: the barrier decodeBarrier returns is the same whatever safe detail
\* list it is passed, and its safe details are those of the decoded cause.
C8_DecodeIgnoresDetails ==
    (call.op = "decode" /\ pc = "ready") =>
       /\ \A d \in DetailLists :
             decodeBarrier(leafDecoders, wire.msg, d, wire.payload).err = cur
       /\ Head(cur).msg = wire.msg
       /\ SafeDetails(Head(cur)) =
             ConcatSafe(DecodeError(leafDecoders, wire.payload.enc), 1)

C8_Witness ==
    /\ call.op = "decode" /\ pc = "ready"
    /\ wire.details = <<"z">>
    /\ SafeDetails(Head(cur)) = <<"a", "b">>

\* C9: once init has run, and so whenever encode or decode is called, the
\* registration log holds one decoder and one encoder registration, both
\* under the barrier's type key, the tables hold that pair there and nothing
\* else, and no later step changes the tables or the log.
Registered ==
    /\ Len(regLog) = 2
    /\ \A i \in 1..Len(regLog) : regLog[i].key = BarrierKey
    /\ { regLog[i].table : i \in 1..Len(regLog) } = { "dec", "enc" }
    /\ leafDecoders = [EmptyRegistry EXCEPT ![BarrierKey] = "decodeBarrier"]
    /\ leafEncoders = [EmptyRegistry EXCEPT ![BarrierKey] = "encodeBarrier"]

C9_Registration ==
    /\ [](pc = "boot" => regLog = <<>> /\ call.op = "none")
    /\ [](pc # "boot" => Registered)
    /\ [][pc # "boot" =>
            UNCHANGED << leafDecoders, leafEncoders, regLog >>]_vars

C9_Witness ==
    /\ call.op = "decode" /\ pc = "ready" /\ wire.from # Nil /\ Registered

\* C10 as stated: every barrier held has a non-nil masked cause, whichever
\* operation made it, decodeBarrier included.
C10_Original ==
    IsBarrier(cur) => Head(cur).masked # Nil

\* C10 amended: a barrier made by Handled, HandledWithMessage or
\* HandledWithMessagef masks its non-nil argument; a barrier made by
\* decodeBarrier masks what the codec decodes the payload to, nil included.
C10_NonNilFromConstructors ==
    /\ (call.op \in CtorOps /\ cur # Nil) =>
          /\ IsBarrier(cur)
          /\ Head(cur).masked = call.arg
          /\ Head(cur).masked # Nil
    /\ (call.op = "decode" /\ pc = "ready") =>
          Head(cur).masked = DecodeError(leafDecoders, wire.payload.enc)

C10_Witness ==
    /\ call.op = "HandledWithMessagef"
    /\ IsBarrier(cur) /\ IsBarrier(Head(cur).masked)

====
